---------------------------- MODULE Spec2Model ----------------------------
(***************************************************************************)
(* A model of the bounded-memory string counter of cbounter/ht_common.c:   *)
(* an open-addressed hash table with linear probing, a 256-bin histogram   *)
(* of the counts, a compacting in-place prune and a HyperLogLog sketch.    *)
(*                                                                         *)
(* `long long' values are kept at their width: a value is the tuple of the *)
(* four 16-bit limbs (least significant first) of its 64-bit two's         *)
(* complement pattern, because counts such as 2^62, 2^63-1 and 0x3C0000000 *)
(* decide several of the properties below.                                 *)
(***************************************************************************)
EXTENDS Integers, Sequences, FiniteSets, TLC

(***************************************************************************)
(* Bounds of the model.                                                    *)
(***************************************************************************)
\* number of calls in one behaviour of the callers "api" and "update"
MaxOps == 3
\* number of calls in one behaviour of the caller "layout"
MaxLayoutOps == 5
\* number of calls in one behaviour of the caller "big"
MaxBigOps == 5
\* number of distinct keys the callers use
NumKeys == 5
\* the caller "layout" draws the 32-bit hashes of its keys from 0..MaxHash
MaxHash == 3
\* longest source given to update()
MaxUpdateLen == 2
\* update() sources use the keys with id <= MaxUpdateKeys
MaxUpdateKeys == 2
\* the largest table (in cells) that the machine has memory for
MaxTable == 8

(***************************************************************************)
(* 64-bit two's complement arithmetic (long long).                         *)
(***************************************************************************)
Limb == 65536
HalfLimb == 32768

\* the long long with value n, for an integer -2^31 < n < 2^31
LL(n) ==
    IF n >= 0
    THEN <<n % Limb, n \div Limb, 0, 0>>
    ELSE <<n % Limb, (n \div Limb) % Limb, Limb - 1, Limb - 1>>

LLAdd(a, b) ==
    LET s1 == a[1] + b[1]
        s2 == a[2] + b[2] + (s1 \div Limb)
        s3 == a[3] + b[3] + (s2 \div Limb)
        s4 == a[4] + b[4] + (s3 \div Limb)
    IN  <<s1 % Limb, s2 % Limb, s3 % Limb, s4 % Limb>>

LLNeg(a) ==
    LLAdd(<<Limb - 1 - a[1], Limb - 1 - a[2], Limb - 1 - a[3], Limb - 1 - a[4]>>,
          <<1, 0, 0, 0>>)

LLSub(a, b) == LLAdd(a, LLNeg(b))

LLIsNeg(a) == a[4] >= HalfLimb

\* a < b as signed 64-bit values
LLLess(a, b) ==
    IF LLIsNeg(a) # LLIsNeg(b)
    THEN LLIsNeg(a)
    ELSE \/ a[4] < b[4]
         \/ a[4] = b[4] /\ a[3] < b[3]
         \/ a[4] = b[4] /\ a[3] = b[3] /\ a[2] < b[2]
         \/ a[4] = b[4] /\ a[3] = b[3] /\ a[2] = b[2] /\ a[1] < b[1]

LLLeq(a, b) == ~LLLess(b, a)

\* a >> 1 for a >= 0
LLShr1(a) ==
    <<(a[1] \div 2) + (a[2] % 2) * HalfLimb,
      (a[2] \div 2) + (a[3] % 2) * HalfLimb,
      (a[3] \div 2) + (a[4] % 2) * HalfLimb,
      a[4] \div 2>>

RECURSIVE LLShl(_, _)
\* a << n
LLShl(a, n) == IF n = 0 THEN a ELSE LLShl(LLAdd(a, a), n - 1)

LLZero == LL(0)
LLOne == LL(1)
\* LLONG_MAX = 2^63 - 1
LLONG_MAX == <<Limb - 1, Limb - 1, Limb - 1, HalfLimb - 1>>
\* 2^62
Pow62 == <<0, 0, 0, 16384>>
\* 0x3C0000000 = 15 * 2^30, the first count of histogram bin 255
HistoTop == <<0, 49152, 3, 0>>

RECURSIVE BitAnd(_, _)
\* a & b for a, b >= 0
BitAnd(a, b) ==
    IF a = 0 \/ b = 0 THEN 0
    ELSE (a % 2) * (b % 2) + 2 * BitAnd(a \div 2, b \div 2)

(***************************************************************************)
(* Histogram binning and the boundary of an automatic prune.               *)
(***************************************************************************)
RECURSIVE histo_addr_loop(_, _)
\* while (h > 15) { log_result += 1; h = h >> 1; } return (log_result << 3) + (h & 7)
histo_addr_loop(log_result, h) ==
    IF LLLess(LL(15), h)
    THEN histo_addr_loop(log_result + 1, LLShr1(h))
    ELSE (log_result * 8 + BitAnd(h[1], 7)) % 256

histo_addr(value) ==
    IF LLIsNeg(value) THEN 0
    ELSE IF LLLess(value, LL(16)) THEN value[1]
    ELSE IF ~LLLess(value, HistoTop) THEN 255
    ELSE histo_addr_loop(1, value)

\* the lower edge of bin index (the inverse of histo_addr)
bin_edge(index) ==
    IF index < 16 THEN LL(index)
    ELSE LLShl(LL(8 + BitAnd(index, 7)), (index \div 8) - 1)

RECURSIVE prune_size_loop(_, _, _, _)
\* while (removing < required && index < 255) { removing += histo[index]; index++; }
\* The iterations over bins that hold 0 leave removing as it is, so the loop
\* is taken from one non-empty bin to the next.
prune_size_loop(histo, required, removing, index) ==
    IF removing < required /\ index < 255
    THEN LET rest == {j \in index..254 : histo[j] # 0}
         IN  IF rest = {} THEN 255
             ELSE LET j == CHOOSE m \in rest : \A n \in rest : m <= n
                  IN  prune_size_loop(histo, required, removing + histo[j], j + 1)
    ELSE index

\* Variant of prune_size: the boundary is always 0, so that an automatic
\* prune discards the cells of count 0 only.
prune_size_zero(self) == LLZero

\* Variant of prune_size: the boundary is taken from the bin at which the
\* loop stopped, not from the bin after it.
prune_size_lower(self) ==
    LLSub(bin_edge(prune_size_loop(self.histo, self.size - (self.buckets \div 2), 0, 0) - 1),
          LLOne)

prune_size(self) ==
    LET required == self.size - (self.buckets \div 2)
        index == prune_size_loop(self.histo, required, 0, 0)
    IN  LLSub(bin_edge(index), LLOne)

(***************************************************************************)
(* Keys.  A key is the caller's string: id names its bytes, len is its     *)
(* strlen and hash is the MurmurHash3_x86_32 value of its bytes under seed *)
(* 42 (the hash function is external: any function of the bytes).  NULL is *)
(* the null pointer of an empty slot.                                      *)
(***************************************************************************)
NULL == [id |-> 0, hash |-> 0, len |-> 0]

Key(i, h) == [id |-> i, hash |-> h, len |-> 1 + (i % 2)]

strlen(data) == data.len

MurmurHash3_x86_32(data) == data.hash

\* the sketch, by its interface: seen is the set of hashes it was given, adds
\* the number of times HyperLogLog_add ran in the public call under way
NoSketch == [seen |-> {}, adds |-> 0]

HyperLogLog_add(hll, h) == [seen |-> hll.seen \cup {h}, adds |-> hll.adds + 1]

\* the estimate of an ideal sketch
HyperLogLog_cardinality(hll) == Cardinality(hll.seen)

EmptyCell == [key |-> NULL, count |-> LLZero]

\* find_cell's loop never ends: no slot is empty and none holds the key
NoCell == -1
\* no automatic prune ran
NoPrune == <<>>

(***************************************************************************)
(* Construction.                                                           *)
(***************************************************************************)
RECURSIVE hash_length_loop(_, _)
\* while (0 != w) hash_length++, w >>= 1;     (w is a long long, >= 4 here)
hash_length_loop(hash_length, w) ==
    IF w # LLZero THEN hash_length_loop(hash_length + 1, LLShr1(w)) ELSE hash_length

\* 0xFFFFFFFF
UINT32_MAX == <<Limb - 1, Limb - 1, 0, 0>>

\* the value of a long long in 0..2^31-1 as a number
LLInt(a) == a[1] + a[2] * Limb

\* if (hash_length < 0) hash_length = 0;
init_hash_length(w) ==
    IF hash_length_loop(-1, w) < 0 THEN 0 ELSE hash_length_loop(-1, w)

\* Variant of init_buckets: the capacity is rounded up to a power of two.
init_buckets_up(w) ==
    IF LLShl(LLOne, init_hash_length(w)) = w THEN w
    ELSE LLShl(LLOne, init_hash_length(w) + 1)

\* self->buckets = 1 << hash_length, as a uint32_t.  hash_length <= 31; the
\* compilers this is built with define 1 << 31 as the bit pattern 0x80000000.
init_buckets(w) == LLShl(LLOne, init_hash_length(w))

\* the counter of a construction that failed: the zeroed object, no table
Unbuilt ==
    [buckets |-> 0,
     hash_mask |-> 0,
     str_allocated |-> 0,
     total |-> LLZero,
     size |-> 0,
     table |-> [i \in {} |-> EmptyCell],
     histo |-> [i \in 0..255 |-> 0],
     max_prune |-> LLZero,
     hll |-> NoSketch]

\* the counter after calloc gave a table of buckets cells
init_table(buckets) ==
    [buckets |-> buckets,
     hash_mask |-> buckets - 1,
     str_allocated |-> 0,
     total |-> LLZero,
     size |-> 0,
     table |-> [i \in 0..(buckets - 1) |-> EmptyCell],
     histo |-> [i \in 0..255 |-> 0],
     max_prune |-> LLZero,
     hll |-> NoSketch]

\* calloc fails for a table of more than MaxTable cells
init_calloc(buckets) ==
    IF LLLess(LL(MaxTable), buckets)
    THEN [status |-> "MemoryError", self |-> Unbuilt,
          buckets |-> buckets, hash_mask |-> LLSub(buckets, LLOne)]
    ELSE [status |-> "ok", self |-> init_table(LLInt(buckets)),
          buckets |-> buckets, hash_mask |-> LLSub(buckets, LLOne)]

\* Counter(w): status is "ok" or the exception raised; buckets and hash_mask
\* are the values of the fields as 64-bit numbers (0 if they were not set)
init(w) ==
    IF LLLess(w, LL(4)) \/ LLLess(UINT32_MAX, w)
    THEN [status |-> "ValueError", self |-> Unbuilt,
          buckets |-> LLZero, hash_mask |-> LLZero]
    ELSE init_calloc(init_buckets(w))

(***************************************************************************)
(* Bucket resolution and lookup.                                           *)
(***************************************************************************)
bucket(self, data) == BitAnd(MurmurHash3_x86_32(data), self.hash_mask)

\* the sketch after bucket(self, data, dataLength, store)
bucket_hll(self, data, store) ==
    IF store THEN HyperLogLog_add(self.hll, MurmurHash3_x86_32(data)) ELSE self.hll

RECURSIVE find_cell_loop_empty(_, _, _, _)
\* Variant of find_cell_loop: the keys are not compared, the first empty slot
\* of the chain is the cell.
find_cell_loop_empty(self, data, b, steps) ==
    IF self.table[b].key # NULL
    THEN IF steps + 1 >= self.buckets THEN NoCell
         ELSE find_cell_loop_empty(self, data, BitAnd(b + 1, self.hash_mask), steps + 1)
    ELSE b

RECURSIVE find_cell_loop_hash(_, _, _, _)
\* Variant of find_cell_loop: the hashes of the keys are compared, not their
\* bytes, so that two keys of one hash share a cell.
find_cell_loop_hash(self, data, b, steps) ==
    IF self.table[b].key # NULL
       /\ MurmurHash3_x86_32(self.table[b].key) # MurmurHash3_x86_32(data)
    THEN IF steps + 1 >= self.buckets THEN NoCell
         ELSE find_cell_loop_hash(self, data, BitAnd(b + 1, self.hash_mask), steps + 1)
    ELSE b

RECURSIVE find_cell_loop(_, _, _, _)
\* while (table[bucket].key && strcmp(table[bucket].key, data)) bucket = (bucket + 1) & mask
\* steps counts the slots passed: after self.buckets of them the loop is back
\* where it began with nothing changed, and never ends.
find_cell_loop(self, data, b, steps) ==
    IF self.table[b].key # NULL /\ self.table[b].key # data
    THEN IF steps + 1 >= self.buckets THEN NoCell
         ELSE find_cell_loop(self, data, BitAnd(b + 1, self.hash_mask), steps + 1)
    ELSE b

\* the index of the cell find_cell returns
find_cell(self, data) == find_cell_loop(self, data, bucket(self, data), 0)

(***************************************************************************)
(* Prune.                                                                  *)
(***************************************************************************)
RECURSIVE first_empty(_, _)
\* while (table[start].key) start++;   (the caller has checked that a slot is empty)
first_empty(table, start) ==
    IF table[start].key # NULL THEN first_empty(table, start + 1) ELSE start

\* Variant of prune_replace_loop: the survivor stays in its slot.
prune_replace_stay(table, mask, replace, i) == i

RECURSIVE prune_replace_loop(_, _, _, _)
\* while (replace != i && table[replace].key) replace = (replace + 1) & mask;
prune_replace_loop(table, mask, replace, i) ==
    IF replace # i /\ table[replace].key # NULL
    THEN prune_replace_loop(table, mask, BitAnd(replace + 1, mask), i)
    ELSE replace

\* r = [table, histo, size, str_allocated, last_free] are prune_int's locals
\* a survivor: if (replace != i) { move the cell; last_free = i; }  histo[...] += 1; size++;
prune_keep(r, i, replace) ==
    [table |-> IF replace # i
               THEN [r.table EXCEPT ![replace] = r.table[i], ![i] = EmptyCell]
               ELSE r.table,
     histo |-> [r.histo EXCEPT ![histo_addr(r.table[i].count)] = @ + 1],
     size |-> r.size + 1,
     str_allocated |-> r.str_allocated,
     last_free |-> IF replace # i THEN i ELSE r.last_free]

\* Variant of prune_drop: the byte of the key's null is not given back.
prune_drop_short(r, i) ==
    [table |-> [r.table EXCEPT ![i] = EmptyCell],
     histo |-> r.histo,
     size |-> r.size,
     str_allocated |-> r.str_allocated - strlen(r.table[i].key),
     last_free |-> i]

\* a victim: the key is freed and the slot emptied
prune_drop(r, i) ==
    [table |-> [r.table EXCEPT ![i] = EmptyCell],
     histo |-> r.histo,
     size |-> r.size,
     str_allocated |-> r.str_allocated - (strlen(r.table[i].key) + 1),
     last_free |-> i]

\* if (((i - last_free) & mask) > ((i - replace) & mask)) replace = i;
\* (uint32 differences, reduced by & mask)
prune_from(r, i, mask, home) ==
    IF ((i - r.last_free) % (mask + 1)) > ((i - home) % (mask + 1)) THEN i ELSE home

\* Variant of prune_slot: a cell survives when count >= boundary.
prune_slot_weak(self, r, i, boundary) ==
    IF r.table[i].key # NULL
    THEN IF LLLeq(boundary, r.table[i].count)
         THEN prune_keep(r, i,
                  prune_replace_loop(r.table, self.hash_mask,
                      prune_from(r, i, self.hash_mask, bucket(self, r.table[i].key)), i))
         ELSE prune_drop(r, i)
    ELSE [r EXCEPT !.last_free = i]

\* the body of prune_int's do-loop for slot i
prune_slot(self, r, i, boundary) ==
    IF r.table[i].key # NULL
    THEN IF LLLess(boundary, r.table[i].count)
         THEN prune_keep(r, i,
                  prune_replace_loop(r.table, self.hash_mask,
                      prune_from(r, i, self.hash_mask, bucket(self, r.table[i].key)), i))
         ELSE prune_drop(r, i)
    ELSE [r EXCEPT !.last_free = i]

RECURSIVE prune_loop(_, _, _, _, _)
\* do { i = (i + 1) & mask; ... } while (i != start);
\* r is the state after the body ran for slot i
prune_loop(self, r, i, start, boundary) ==
    IF i # start
    THEN prune_loop(self,
                    prune_slot(self, r, BitAnd(i + 1, self.hash_mask), boundary),
                    BitAnd(i + 1, self.hash_mask), start, boundary)
    ELSE r

\* some slot is empty, so the search for start stays inside the table
HasEmpty(self) == \E i \in 0..(self.buckets - 1) : self.table[i].key = NULL

prune_locals(self, start) ==
    [table |-> self.table,
     histo |-> [i \in 0..255 |-> 0],
     size |-> 0,
     str_allocated |-> self.str_allocated,
     last_free |-> start]

\* the first pass of the do-loop, then the rest of it
prune_run(self, start, boundary) ==
    prune_loop(self,
               prune_slot(self, prune_locals(self, start),
                          BitAnd(start + 1, self.hash_mask), boundary),
               BitAnd(start + 1, self.hash_mask), start, boundary)

\* Variant of prune_store: max_prune is the boundary of the last prune.
prune_store_last(self, r, boundary) ==
    [self EXCEPT !.max_prune = boundary,
                 !.histo = r.histo,
                 !.table = r.table,
                 !.str_allocated = r.str_allocated,
                 !.size = r.size]

prune_store(self, r, boundary) ==
    [self EXCEPT !.max_prune = IF LLLess(self.max_prune, boundary)
                               THEN boundary ELSE self.max_prune,
                 !.histo = r.histo,
                 !.table = r.table,
                 !.str_allocated = r.str_allocated,
                 !.size = r.size]

prune_int(self, boundary) ==
    prune_store(self, prune_run(self, first_empty(self.table, 0), boundary), boundary)

(***************************************************************************)
(* Insertion.  allocate_cell gives [self: the counter afterwards, cell:    *)
(* the index of the returned cell or NoCell, auto: <<the boundary of the   *)
(* automatic prune, size right after it>> or NoPrune].                     *)
(***************************************************************************)
\* self->size += 1; ... cell->key = key; cell->count = 0; self->histo[0] += 1;
allocate_install(self, data, cell, auto) ==
    [self |-> [self EXCEPT !.size = @ + 1,
                           !.str_allocated = @ + strlen(data) + 1,
                           !.table[cell] = [key |-> data, count |-> LLZero],
                           !.histo[0] = @ + 1],
     cell |-> cell,
     auto |-> auto]

\* Variant of allocate_pruned: the second find_cell feeds the sketch too.
allocate_pruned_fed(pruned, data, boundary) ==
    allocate_install([pruned EXCEPT !.hll = bucket_hll(pruned, data, TRUE)], data,
                     find_cell(pruned, data), <<boundary, pruned.size>>)

\* after the automatic prune: find_cell again, without feeding the sketch
allocate_pruned(pruned, data, boundary) ==
    allocate_install(pruned, data, find_cell(pruned, data), <<boundary, pruned.size>>)

allocate_found(self, data, cell) ==
    IF cell = NoCell
    THEN [self |-> self, cell |-> NoCell, auto |-> NoPrune]
    ELSE IF self.table[cell].key = NULL
    THEN IF self.size >= (self.buckets \div 4) * 3
         THEN allocate_pruned(prune_int(self, prune_size(self)), data, prune_size(self))
         ELSE allocate_install(self, data, cell, NoPrune)
    ELSE [self |-> self, cell |-> cell, auto |-> NoPrune]

\* find_cell(self, data, dataLength, 1) feeds the sketch
allocate_fed(fed, data) == allocate_found(fed, data, find_cell(fed, data))

allocate_cell(self, data) ==
    allocate_fed([self EXCEPT !.hll = bucket_hll(self, data, TRUE)], data)

(***************************************************************************)
(* The public operations, as functions of the counter: each gives          *)
(* [self: the counter afterwards, status: "ok", the exception raised, or   *)
(*  "hang" when the call never returns, autos: the automatic prunes that   *)
(*  ran, in order].                                                        *)
(***************************************************************************)
Result(self, status, autos) == [self |-> self, status |-> status, autos |-> autos]

AutoOf(a) == IF a.auto = NoPrune THEN <<>> ELSE <<a.auto>>

\* strlen(value) < length: the caller's bytes hold a null before their end
checkString(data, dataLength) == ~(data = NULL \/ strlen(data) < dataLength)

\* Variant of histo_move: the bin of the old count is not decremented.
histo_move_add(histo, old, new) == [histo EXCEPT ![histo_addr(new)] = @ + 1]

\* histo[histo_addr(old)] -= 1; histo[histo_addr(new)] += 1;
\* histo is uint32_t[]: a bin that is 0 and is decremented wraps to 2^32-1 and
\* the increment that follows it brings it back; -1 stands for 2^32-1 here
histo_move(histo, old, new) ==
    [[histo EXCEPT ![histo_addr(old)] = @ - 1] EXCEPT ![histo_addr(new)] = @ + 1]

\* Variant of increment_cell: the overflow test is count >= LLONG_MAX - increment.
increment_cell_strict(a, increment) ==
    IF a.cell = NoCell THEN Result(a.self, "hang", <<>>)
    ELSE IF LLLeq(LLSub(LLONG_MAX, increment), a.self.table[a.cell].count)
    THEN Result(a.self, "OverflowError", AutoOf(a))
    ELSE Result([a.self EXCEPT
                   !.total = LLAdd(@, increment),
                   !.histo = [[@ EXCEPT ![histo_addr(a.self.table[a.cell].count)] = @ - 1]
                                 EXCEPT ![histo_addr(LLAdd(a.self.table[a.cell].count,
                                                           increment))] = @ + 1],
                   !.table[a.cell].count = LLAdd(@, increment)],
                "ok", AutoOf(a))

\* self->total += increment and self->total += value - cell->count wrap at 64
\* bits: extension modules are built with CPython's own flags, which have -fwrapv
increment_cell(a, increment) ==
    IF a.cell = NoCell THEN Result(a.self, "hang", <<>>)
    ELSE IF LLLess(LLSub(LLONG_MAX, increment), a.self.table[a.cell].count)
    THEN Result(a.self, "OverflowError", AutoOf(a))
    ELSE Result([a.self EXCEPT
                   !.total = LLAdd(@, increment),
                   !.histo = histo_move(@, a.self.table[a.cell].count,
                                        LLAdd(a.self.table[a.cell].count, increment)),
                   !.table[a.cell].count = LLAdd(@, increment)],
                "ok", AutoOf(a))

increment_obj(self, data, increment) ==
    IF LLIsNeg(increment) THEN Result(self, "ValueError", <<>>)
    ELSE IF increment = LLZero THEN Result(self, "ok", <<>>)
    ELSE increment_cell(allocate_cell(self, data), increment)

increment(self, data, dataLength, delta) ==
    IF ~checkString(data, dataLength) THEN Result(self, "ValueError", <<>>)
    ELSE increment_obj(self, data, delta)

\* del counter[key]: pValue is a null pointer
PyNULL == <<>>

\* the set value branch, on the cell a.cell
setitem_cell(a, value) ==
    IF a.cell = NoCell THEN Result(a.self, "hang", <<>>)
    ELSE Result([a.self EXCEPT
                   !.histo = histo_move(@, a.self.table[a.cell].count, value),
                   !.total = LLAdd(@, LLSub(value, a.self.table[a.cell].count)),
                   !.table[a.cell].count = value],
                "ok", AutoOf(a))

\* the delete value branch, on the cell c
delitem_cell(self, c) ==
    IF c = NoCell THEN Result(self, "hang", <<>>)
    ELSE Result([self EXCEPT
                   !.histo = [[@ EXCEPT ![histo_addr(self.table[c].count)] = @ - 1]
                                 EXCEPT ![0] = @ + 1],
                   !.total = LLSub(@, self.table[c].count),
                   !.table[c].count = LLZero],
                "ok", <<>>)

setitem(self, data, dataLength, pValue) ==
    IF ~checkString(data, dataLength) THEN Result(self, "ValueError", <<>>)
    ELSE IF pValue # PyNULL
    THEN IF LLIsNeg(pValue) THEN Result(self, "ValueError", <<>>)
         ELSE IF pValue # LLZero
         THEN setitem_cell(allocate_cell(self, data), pValue)
         ELSE setitem_cell([self |-> self, cell |-> find_cell(self, data),
                            auto |-> NoPrune], pValue)
    ELSE delitem_cell(self, find_cell(self, data))

\* the count of the cell c, or NoCell when the lookup never returns
getitem_cell(self, c) == IF c = NoCell THEN NoCell ELSE self.table[c].count

\* counter[key]
getitem(self, data) == getitem_cell(self, find_cell(self, data))

total(self) == self.total

\* Variant of size: the cells of count 0 are counted too.
size_raw(self) == self.size

\* len(counter)
size(self) == self.size - self.histo[0]

cardinality(self) ==
    IF self.max_prune = LLZero THEN size(self)
    ELSE HyperLogLog_cardinality(self.hll)

\* counter.prune(boundary), on a table with an empty slot
prune(self, boundary) == Result(prune_int(self, boundary), "ok", <<>>)

(***************************************************************************)
(* update(source).  An item of the source is <<"pair", key, dataLength,    *)
(* delta>> (a tuple, handed to increment), <<"str", key, dataLength>> (a   *)
(* string or bytes object, counted once) or <<"other">> (an object that is *)
(* neither).  update gives a Result with done, the number of items that    *)
(* were applied.                                                           *)
(***************************************************************************)
update_item(self, item) ==
    IF item[1] = "pair" THEN increment(self, item[2], item[3], item[4])
    ELSE IF item[1] = "str"
    THEN IF ~checkString(item[2], item[3]) THEN Result(self, "ValueError", <<>>)
         ELSE increment_obj(self, item[2], LLOne)
    ELSE Result(self, "TypeError", <<>>)

RECURSIVE update_loop(_, _, _, _)
\* while (item = PyIter_Next(iterator)) { ... return NULL on the first failure ... }
\* r is the outcome of item n of source; autos the prunes of the items before it
update_loop(r, source, n, autos) ==
    IF r.status # "ok" \/ n = Len(source)
    THEN [self |-> r.self, status |-> r.status, autos |-> autos \o r.autos,
          done |-> IF r.status = "ok" THEN n ELSE n - 1]
    ELSE update_loop(update_item(r.self, source[n + 1]), source, n + 1,
                     autos \o r.autos)

\* Variant of update: a failed update gives the counter back as it was.
update_keep(self, r) == IF r.status = "ok" THEN r ELSE [r EXCEPT !.self = self]

update_atomic(self, source) ==
    update_keep(self, update_loop(Result(self, "ok", <<>>), source, 0, <<>>))

update(self, source) == update_loop(Result(self, "ok", <<>>), source, 0, <<>>)

(***************************************************************************)
(* __reduce__ and __setstate__.  The cells are pickled as raw bytes, so a   *)
(* key pointer arrives as a meaningless non-null value (Stale); the keys    *)
(* travel in strings_row, a buffer of str_allocated bytes that holds them,  *)
(* each with its null, in slot order.                                       *)
(***************************************************************************)
Stale == [id |-> -1, hash |-> 0, len |-> 0]

\* an uninitialised byte of strings_row read as a key
Junk == [id |-> -2, hash |-> 0, len |-> 0]

RECURSIVE reduce_strings_live(_, _)
\* Variant of reduce_strings: the keys of the cells of count 0 are left out.
reduce_strings_live(table, n) ==
    IF n = 0 THEN <<>>
    ELSE IF table[n - 1].key # NULL /\ table[n - 1].count # LLZero
    THEN Append(reduce_strings_live(table, n - 1), table[n - 1].key)
    ELSE reduce_strings_live(table, n - 1)

RECURSIVE reduce_strings(_, _)
\* for (i = 0; i < buckets; i++) if (key) { memcpy(result_index, key, length); ... }
\* the keys copied from the slots 0..n-1
reduce_strings(table, n) ==
    IF n = 0 THEN <<>>
    ELSE IF table[n - 1].key # NULL
    THEN Append(reduce_strings(table, n - 1), table[n - 1].key)
    ELSE reduce_strings(table, n - 1)

RECURSIVE strings_length(_, _)
\* the bytes that the first n keys of keys take
strings_length(keys, n) ==
    IF n = 0 THEN 0 ELSE strings_length(keys, n - 1) + strlen(keys[n]) + 1

\* the bytes of the cells: the count, and the pointer as a number
reduce_row(table) ==
    [i \in DOMAIN table |->
        [key |-> IF table[i].key # NULL THEN Stale ELSE NULL,
         count |-> table[i].count]]

\* status is "crash" when the keys do not fit the str_allocated bytes of
\* strings_row and memcpy writes past it
reduce(self) ==
    [args |-> LL(self.buckets),
     state |-> [total |-> self.total,
                str_allocated |-> self.str_allocated,
                size |-> self.size,
                max_prune |-> self.max_prune,
                hashtable_row |-> reduce_row(self.table),
                strings_row |-> [keys |-> reduce_strings(self.table, self.buckets),
                                 length |-> self.str_allocated],
                histo_row |-> self.histo,
                hll_row |-> self.hll],
     status |-> IF strings_length(reduce_strings(self.table, self.buckets),
                                  Len(reduce_strings(self.table, self.buckets)))
                   > self.str_allocated
                THEN "crash" ELSE "ok"]

RECURSIVE set_state_loop(_, _, _, _, _)
\* for (i = 0; i < buckets; i++) if (table[i].key) { ... }
\* word is the number of keys read so far, at the offset current_word; the
\* result is the table and whether the loop met the end of strings_row
set_state_loop(table, strings_row, i, word, current_word) ==
    IF i \notin DOMAIN table THEN [table |-> table, overflow |-> FALSE]
    ELSE IF table[i].key # NULL
    THEN IF current_word >= strings_row.length
         THEN [table |-> table, overflow |-> TRUE]
         ELSE set_state_loop(
                  [table EXCEPT ![i].key = IF word < Len(strings_row.keys)
                                           THEN strings_row.keys[word + 1] ELSE Junk],
                  strings_row, i + 1, word + 1,
                  current_word + 1 + (IF word < Len(strings_row.keys)
                                      THEN strlen(strings_row.keys[word + 1]) ELSE 0))
    ELSE set_state_loop(table, strings_row, i + 1, word, current_word)

\* the counter once the loop over the slots is done
set_state_rest(self, state, r) ==
    IF r.overflow
    THEN Result([self EXCEPT !.total = state.total,
                             !.str_allocated = state.str_allocated,
                             !.size = state.size,
                             !.max_prune = state.max_prune,
                             !.table = r.table],
                "SystemError", <<>>)
    ELSE Result([self EXCEPT !.total = state.total,
                             !.str_allocated = state.str_allocated,
                             !.size = state.size,
                             !.max_prune = state.max_prune,
                             !.table = r.table,
                             !.histo = state.histo_row,
                             !.hll = state.hll_row],
                "ok", <<>>)

\* __setstate__(state) on the counter self
set_state(self, state) ==
    set_state_rest(self, state,
        set_state_loop([i \in DOMAIN self.table |-> state.hashtable_row[i]],
                       state.strings_row, 0, 0, 0))

\* pickle.loads(pickle.dumps(self)): the class is called with the pickled
\* arguments and __setstate__ is called on the new counter
restore_into(made, pickled) ==
    IF made.status # "ok" THEN Result(made.self, made.status, <<>>)
    ELSE set_state(made.self, pickled.state)

restore_pickled(pickled) ==
    IF pickled.status # "ok" THEN Result(Unbuilt, pickled.status, <<>>)
    ELSE restore_into(init(pickled.args), pickled)

restore(self) == restore_pickled(reduce(self))

(***************************************************************************)
(* Iteration.  An iterator is [i, result_type]; iternext gives the iterator *)
(* afterwards and the value yielded, or StopIteration.  The count of an    *)
(* item is handed to Py_BuildValue under the format "l", as a C long of     *)
(* long_bits bits (64 on LP64 builds, 32 on LLP64 builds).                 *)
(***************************************************************************)
ITER_RESULT_KEYS == 1
ITER_RESULT_KV_PAIRS == 3

StopIteration == [status |-> "StopIteration", value |-> <<>>]
InvalidIteration == [status |-> "SystemError", value |-> <<>>]

\* the low 32 bits of a long long, as a signed 32-bit value, widened again
LLLow32(a) ==
    IF a[2] >= HalfLimb THEN <<a[1], a[2], Limb - 1, Limb - 1>>
    ELSE <<a[1], a[2], 0, 0>>

\* (long) count
as_long(count, long_bits) == IF long_bits = 64 THEN count ELSE LLLow32(count)

RECURSIVE iternext_skip(_, _, _)
\* while (i < buckets && table[i].count == 0) i++;
iternext_skip(table, buckets, i) ==
    IF i < buckets /\ table[i].count = LLZero
    THEN iternext_skip(table, buckets, i + 1) ELSE i

\* the iterator and the result, with i already past the cells of count 0
iternext_at(self, it, i, long_bits) ==
    IF i < self.buckets /\ it.result_type \in {ITER_RESULT_KEYS, ITER_RESULT_KV_PAIRS}
    THEN [it |-> [it EXCEPT !.i = i + 1],
          result |-> [status |-> "ok",
                      value |-> IF it.result_type = ITER_RESULT_KEYS
                                THEN <<self.table[i].key>>
                                ELSE <<self.table[i].key,
                                       as_long(self.table[i].count, long_bits)>>]]
    ELSE IF i < self.buckets
    THEN [it |-> it, result |-> InvalidIteration]
    ELSE [it |-> [it EXCEPT !.i = self.buckets], result |-> StopIteration]

iternext(self, it, long_bits) ==
    iternext_at(self, it, iternext_skip(self.table, self.buckets, it.i), long_bits)

make_iterator(self, result_type) == [i |-> 0, result_type |-> result_type]

RECURSIVE iterate_from(_, _, _, _)
\* the values that the calls of iternext yield until StopIteration, after
\* those of yielded; step is the outcome of the last call
iterate_from(self, step, yielded, long_bits) ==
    IF step.result.status # "ok" THEN yielded
    ELSE iterate_from(self, iternext(self, step.it, long_bits),
                      Append(yielded, step.result.value), long_bits)

\* list(counter.keys()) or list(counter.items())
iterate(self, result_type, long_bits) ==
    iterate_from(self, iternext(self, make_iterator(self, result_type), long_bits),
                 <<>>, long_bits)

(***************************************************************************)
(* The state machine.                                                      *)
(*   self   the counter object                                             *)
(*   fault  "none" while calls return; "hang" or "crash" once a call did   *)
(*          not (nothing can be called after that)                         *)
(*   env    the callers, fixed at construction: the bucket count they      *)
(*          ask for, the hashes of their keys, the arguments they pass     *)
(*          and the number of calls they make                              *)
(*   known  the keys the callers have used so far, in order of first use   *)
(*   ops    the number of calls made                                       *)
(*   last   the last call: its name, arguments, outcome, the automatic     *)
(*          prunes that ran in it and the number of times it fed the       *)
(*          sketch; for an iteration, value is the list it yielded         *)
(*   hist   history: incs - every call so far was an increment with a      *)
(*          valid key and delta >= 0 and no prune ran; pruned - some prune *)
(*          ran; pos - some prune ran with a boundary > 0; zeroed - some   *)
(*          delete or set-to-0 was applied; counted - the ids of the keys  *)
(*          that were ever given a positive count; passed - the hashes of  *)
(*          the keys that were passed, valid, to an increment or a set     *)
(*          with a positive amount; top - <<the highest boundary that a    *)
(*          prune, explicit or automatic, was run with>>, <<>> before any; *)
(*          net - the exact sum of the amounts that increment, set and     *)
(*          update added less those that delete and set took away;         *)
(*          evicted - the ids of the keys that a prune took out of the     *)
(*          table; incp - every call so far was an increment or a prune;   *)
(*          sums - while incp: per key id, the sum of the accepted deltas  *)
(*   given  while hist.incs: per key id, the sum of the accepted deltas    *)
(***************************************************************************)
VARIABLES self, fault, env, known, ops, last, hist, given

vars == <<self, fault, env, known, ops, last, hist, given>>

\* LLONG_MAX - 1
NearMax == LLSub(LLONG_MAX, LLOne)

\* 2^31 and 2^32
Pow31 == <<0, HalfLimb, 0, 0>>
Pow32 == <<0, 0, 1, 0>>

\* the bucket counts that the callers "new" ask for
NewArgs ==
    {LL(-1), LL(0), LL(1), LL(3), LL(4), LL(7), LL(8), LL(10), LL(1000),
     LLSub(Pow31, LLOne), Pow31, LLAdd(Pow31, LLOne), LLSub(Pow32, LLOne),
     Pow32, LLAdd(Pow32, LLOne), LLONG_MAX}

\* The callers.  "api": every operation but update, with the edge values of
\* each argument.  "update": update() and increment.  "layout": keys of every
\* hash, counted and pruned.  "big": counts of histogram bin 255 and overflow.
\* "twelve": 12 distinct keys, each counted once, on 8 buckets.  "new": the
\* construction alone, with bucket counts in and out of range.  The callers
\* with observes also iterate over the counter and pickle it between calls.
Callers ==
    { [name |-> "api", observes |-> TRUE, w |-> LL(4), hashes |-> {3, 4}, maxops |-> MaxOps, fresh |-> FALSE,
       incs |-> {LL(-1), LL(0), LL(1), Pow62},
       sets |-> {LL(-1), LL(0), LL(100), NearMax},
       dels |-> TRUE, prunes |-> {LL(-1), LL(0), LL(1)}, upds |-> {}],
      [name |-> "update", observes |-> TRUE, w |-> LL(5), hashes |-> {3, 4}, maxops |-> MaxOps, fresh |-> FALSE,
       incs |-> {LL(1)}, sets |-> {}, dels |-> FALSE, prunes |-> {},
       upds |-> {LL(-1), LL(1), Pow62}],
      [name |-> "layout", observes |-> FALSE, w |-> LL(6), hashes |-> 0..MaxHash, maxops |-> MaxLayoutOps,
       fresh |-> FALSE,
       incs |-> {LL(1)}, sets |-> {}, dels |-> TRUE, prunes |-> {LL(1)}, upds |-> {}],
      [name |-> "big", observes |-> TRUE, w |-> LL(7), hashes |-> {3}, maxops |-> MaxBigOps, fresh |-> FALSE,
       incs |-> {Pow62}, sets |-> {LL(20)}, dels |-> FALSE, prunes |-> {LL(0)},
       upds |-> {}],
      [name |-> "twelve", observes |-> TRUE, w |-> LL(8), hashes |-> {7, 8}, maxops |-> 12, fresh |-> TRUE,
       incs |-> {LL(1)}, sets |-> {}, dels |-> FALSE, prunes |-> {}, upds |-> {}] }
    \cup { [name |-> "new", observes |-> TRUE, w |-> w, hashes |-> {}, maxops |-> 0, fresh |-> FALSE,
             incs |-> {}, sets |-> {}, dels |-> FALSE, prunes |-> {}, upds |-> {}]
           : w \in NewArgs }

KnownSet == {known[i] : i \in 1..Len(known)}

NewKeys == IF Len(known) < NumKeys \/ env.fresh
           THEN {Key(Len(known) + 1, h) : h \in env.hashes} ELSE {}

\* the keys a call may name: one used before, or the next new key with any hash
Pool == (IF env.fresh THEN {} ELSE KnownSet) \cup NewKeys

\* <<data, dataLength>>: a key, or the first key followed by a null and more bytes
KeyArgs == {<<d, strlen(d)>> : d \in Pool} \cup
           {<<d, strlen(d) + 1>> : d \in {k \in KnownSet : k.id = 1 /\ env.name = "api"}}

\* the keys used so far, with the keys of used among them (one new key at most)
Intern(used) ==
    LET new == {d \in used : d.id > Len(known)}
    IN  IF new = {} THEN known ELSE Append(known, CHOOSE d \in new : TRUE)

NoGiven == [i \in 1..NumKeys |-> LLZero]

Boundaries(autos) == {autos[i][1] : i \in 1..Len(autos)}

\* a + b and a - b (for a >= b) without wrapping, for five-limb values
WideAdd(a, b) ==
    LET s1 == a[1] + b[1]
        s2 == a[2] + b[2] + (s1 \div Limb)
        s3 == a[3] + b[3] + (s2 \div Limb)
        s4 == a[4] + b[4] + (s3 \div Limb)
        s5 == a[5] + b[5] + (s4 \div Limb)
    IN  <<s1 % Limb, s2 % Limb, s3 % Limb, s4 % Limb, s5>>

WideSub(a, b) ==
    LET d1 == a[1] - b[1]
        d2 == a[2] - b[2] - (IF d1 < 0 THEN 1 ELSE 0)
        d3 == a[3] - b[3] - (IF d2 < 0 THEN 1 ELSE 0)
        d4 == a[4] - b[4] - (IF d3 < 0 THEN 1 ELSE 0)
        d5 == a[5] - b[5] - (IF d4 < 0 THEN 1 ELSE 0)
    IN  <<d1 % Limb, d2 % Limb, d3 % Limb, d4 % Limb, d5>>

\* a long long >= 0 as a five-limb value
Wide(a) == a \o <<0>>

RECURSIVE UpdateAdded(_, _)
\* the amounts of the first n items of an update source
UpdateAdded(source, n) ==
    IF n = 0 THEN <<0, 0, 0, 0, 0>>
    ELSE WideAdd(UpdateAdded(source, n - 1),
                 IF source[n][1] = "pair" THEN Wide(source[n][4])
                 ELSE IF source[n][1] = "str" THEN Wide(LLOne)
                 ELSE <<0, 0, 0, 0, 0>>)

\* the count of the key data before the call (0 when it is not in the table)
OldCount(data) == IF find_cell(self, data) = NoCell THEN LLZero ELSE getitem(self, data)

\* what the call op(args), which ended as r, was asked to add to the counts
\* (for an update: by the items that were applied, also when a later one failed)
Added(op, args, r, used) ==
    IF op = "update" THEN UpdateAdded(args[1], args[2])
    ELSE IF r.status # "ok" THEN <<0, 0, 0, 0, 0>>
    ELSE IF op = "increment" THEN Wide(args[3])
    ELSE IF op = "set"
    THEN IF LLLess(OldCount(CHOOSE d \in used : TRUE), args[3])
         THEN Wide(LLSub(args[3], OldCount(CHOOSE d \in used : TRUE)))
         ELSE <<0, 0, 0, 0, 0>>
    ELSE <<0, 0, 0, 0, 0>>

\* what the call op(args), which ended as r, was asked to take off the counts
Removed(op, args, r, used) ==
    IF r.status # "ok" THEN <<0, 0, 0, 0, 0>>
    ELSE IF op = "set"
    THEN IF LLLess(args[3], OldCount(CHOOSE d \in used : TRUE))
         THEN Wide(LLSub(OldCount(CHOOSE d \in used : TRUE), args[3]))
         ELSE <<0, 0, 0, 0, 0>>
    ELSE IF op = "delete" THEN Wide(OldCount(CHOOSE d \in used : TRUE))
    ELSE <<0, 0, 0, 0, 0>>

\* the ids of the keys in the table of s
KeyIds(s) == {s.table[i].key.id : i \in {j \in DOMAIN s.table : s.table[j].key # NULL}}

\* <<the highest of the boundaries bs>>, or <<>> when there is none
HighestOf(bs) ==
    IF bs = {} THEN <<>> ELSE <<CHOOSE b \in bs : \A c \in bs : LLLeq(c, b)>>

Init ==
    /\ env \in Callers
    /\ self = init(env.w).self
    /\ fault = IF init(env.w).status = "ok" THEN "none" ELSE init(env.w).status
    /\ known = <<>>
    /\ ops = 0
    /\ last = [op |-> "init",
               args |-> <<env.w, init(env.w).buckets, init(env.w).hash_mask>>,
               status |-> init(env.w).status, autos |-> <<>>, feeds |-> 0,
               value |-> <<>>]
    /\ hist = [incs |-> TRUE, pruned |-> FALSE, pos |-> FALSE, zeroed |-> FALSE,
               counted |-> {}, passed |-> {}, top |-> <<>>,
               net |-> <<0, 0, 0, 0, 0>>, evicted |-> {}, incp |-> TRUE, sums |-> <<>>]
    /\ given = NoGiven

CanCall == fault = "none" /\ ops < env.maxops

\* the call op(args) ended as r.  used: the keys it named; bs: the boundaries
\* of the explicit prunes that ran in it; incs: it was an increment with a
\* valid key and delta >= 0; zero: it was a delete or a set to 0; pos: the ids
\* of the keys it gave a positive count if it succeeded
Finish(op, args, r, used, bs, incs, zero, pos) ==
    /\ self' = [r.self EXCEPT !.hll.adds = 0]
    /\ fault' = IF r.status \in {"hang", "crash"} THEN r.status ELSE "none"
    /\ env' = env
    /\ known' = Intern(used)
    /\ ops' = ops + 1
    /\ last' = [op |-> op, args |-> args, status |-> r.status, autos |-> r.autos,
                feeds |-> r.self.hll.adds, value |-> <<>>]
    /\ hist' = [incs |-> hist.incs /\ incs /\ r.autos = <<>>
                         /\ r.status \in {"ok", "OverflowError"},
                pruned |-> hist.pruned \/ bs # {} \/ r.autos # <<>>,
                pos |-> hist.pos \/ \E b \in bs \cup Boundaries(r.autos) : LLLess(LLZero, b),
                zeroed |-> hist.zeroed \/ (zero /\ r.status = "ok"),
                counted |-> hist.counted \cup pos,
                passed |-> IF /\ op \in {"increment", "set"}
                              /\ r.status \in {"ok", "OverflowError"}
                              /\ LLLess(LLZero, args[3])
                           THEN hist.passed \cup {MurmurHash3_x86_32(d) : d \in used}
                           ELSE hist.passed,
                top |-> HighestOf(bs \cup Boundaries(r.autos)
                                     \cup {hist.top[i] : i \in 1..Len(hist.top)}),
                net |-> WideSub(WideAdd(hist.net, Added(op, args, r, used)),
                                Removed(op, args, r, used)),
                evicted |-> hist.evicted \cup (KeyIds(self) \ KeyIds(r.self)),
                incp |-> hist.incp /\ op \in {"increment", "prune"},
                sums |-> IF hist.incp /\ op \in {"increment", "prune"}
                         THEN [i \in 1..Len(Intern(used)) |->
                                 LLAdd(IF i <= Len(hist.sums) THEN hist.sums[i] ELSE LLZero,
                                       IF op = "increment" /\ r.status = "ok" /\ args[1] = i
                                       THEN args[3] ELSE LLZero)]
                         ELSE <<>>]
    /\ given' = IF hist.incs /\ incs /\ r.autos = <<>> /\ ~env.fresh
                   /\ r.status \in {"ok", "OverflowError"}
                THEN IF r.status = "ok"
                     THEN [given EXCEPT ![args[1]] = LLAdd(@, args[3])]
                     ELSE given
                ELSE NoGiven

\* the ids of the keys the first n items of source gave a positive count
ItemsCounted(source, n) ==
    {source[i][2].id : i \in {j \in 1..n : source[j][1] # "other"}}

FinishCounted(op, args, r, data, zero, value) ==
    Finish(op, args, r, {data}, {}, op = "increment", zero,
           IF r.status = "ok" /\ value # LLZero THEN {data.id} ELSE {})

FinishUpdate(source, r) ==
    Finish("update", <<source, r.done>>, r, {source[i][2] : i \in {j \in 1..Len(source) : source[j][1] # "other"}},
           {}, FALSE, FALSE, ItemsCounted(source, r.done))

Increment ==
    /\ CanCall
    /\ \E ka \in KeyArgs, delta \in env.incs :
         FinishCounted("increment", <<ka[1].id, ka[2], delta>>,
                       increment(self, ka[1], ka[2], delta), ka[1], FALSE, delta)

SetItem ==
    /\ CanCall
    /\ \E ka \in KeyArgs, value \in env.sets :
         FinishCounted("set", <<ka[1].id, ka[2], value>>,
                       setitem(self, ka[1], ka[2], value), ka[1],
                       value = LLZero, value)

DelItem ==
    /\ CanCall
    /\ env.dels
    /\ \E ka \in KeyArgs :
         FinishCounted("delete", <<ka[1].id, ka[2]>>,
                       setitem(self, ka[1], ka[2], PyNULL), ka[1], TRUE, LLZero)

\* On a table without an empty slot prune_int's search for start reads past
\* the table: the call crashes, or finds a zero word there and then loops for
\* ever (i, masked, never meets start again).
Prune ==
    /\ CanCall
    /\ \E boundary \in env.prunes :
         IF HasEmpty(self)
         THEN Finish("prune", <<boundary>>, prune(self, boundary), {},
                     {boundary}, FALSE, FALSE, {})
         ELSE \E f \in {"hang", "crash"} :
                Finish("prune", <<boundary>>, Result(self, f, <<>>), {}, {},
                       FALSE, FALSE, {})

\* the items an update() source is made of, over the keys of pool
Items(pool) ==
    {<<"pair", d, strlen(d), delta>> : d \in pool, delta \in env.upds}
    \cup {<<"str", d, strlen(d)>> : d \in pool}
    \cup {<<"other">>}

Sources(pool) ==
    UNION {[1..n -> Items(pool)] : n \in 1..MaxUpdateLen}

ItemKeys(source) == {source[i][2] : i \in {j \in 1..Len(source) : source[j][1] # "other"}}

Update ==
    /\ CanCall
    /\ env.upds # {}
    /\ \E new \in {{d} : d \in NewKeys} \cup {{}} :
         \E source \in Sources({d \in KnownSet \cup new : d.id <= MaxUpdateKeys}) :
               /\ new \subseteq ItemKeys(source)
               /\ FinishUpdate(source, update(self, source))

Observers == {"restore", "iterate"}

\* between two calls the callers may look at the counter once
CanObserve == fault = "none" /\ env.observes /\ last.op \notin Observers

\* the observation op(args) ended as r and gave value; it is not counted in ops
Observed(op, args, r, value) ==
    /\ self' = IF r.status = "ok" THEN r.self ELSE self
    /\ fault' = IF r.status \in {"hang", "crash"} THEN r.status ELSE "none"
    /\ last' = [op |-> op, args |-> args, status |-> r.status, autos |-> <<>>,
                feeds |-> 0, value |-> value]
    /\ UNCHANGED <<env, known, ops, hist, given>>

\* self = pickle.loads(pickle.dumps(self)): the callers go on with the copy
Restore ==
    /\ CanObserve
    /\ Observed("restore", <<>>, restore(self), <<>>)

\* list(self.keys()) or list(self.items()), on a build whose long has
\* long_bits bits
Iterate ==
    /\ CanObserve
    /\ \E result_type \in {ITER_RESULT_KEYS, ITER_RESULT_KV_PAIRS}, long_bits \in {32, 64} :
         Observed("iterate", <<result_type, long_bits>>, Result(self, "ok", <<>>),
                  iterate(self, result_type, long_bits))

Next == Increment \/ SetItem \/ DelItem \/ Prune \/ Update \/ Restore \/ Iterate

Spec == Init /\ [][Next]_vars

(***************************************************************************)
(* Observations of a counter used by the properties.                       *)
(***************************************************************************)
Occupied(s) == {i \in 0..(s.buckets - 1) : s.table[i].key # NULL}

\* the key of the call recorded in l (its first argument is the key's id)
KeyOf(l, ks) == ks[l.args[1]]

RECURSIVE WideSum(_, _)
\* the exact sum of the non-negative long longs xs[1..n]
WideSum(xs, n) ==
    IF n = 0 THEN <<0, 0, 0, 0, 0>>
    ELSE WideAdd(WideSum(xs, n - 1), xs[n] \o <<0>>)

RECURSIVE SumCounts(_, _)
\* the sum, modulo 2^64, of the counts of the slots 0..n-1
SumCounts(table, n) ==
    IF n = 0 THEN LLZero ELSE LLAdd(SumCounts(table, n - 1), table[n - 1].count)

\* count + delta > 2^63 - 1, for count, delta >= 0
Exceeds(count, delta) == LLIsNeg(LLAdd(count, delta))

\* a + b and a - b do not leave the range of long long
AddExact(a, b) == ~(LLIsNeg(a) = LLIsNeg(b) /\ LLIsNeg(LLAdd(a, b)) # LLIsNeg(a))
SubExact(a, b) == ~(LLIsNeg(a) # LLIsNeg(b) /\ LLIsNeg(LLSub(a, b)) # LLIsNeg(a))

\* the fields of the counter that the callers can observe
SameCounter(s, t) ==
    /\ s.table = t.table
    /\ s.size = t.size
    /\ s.total = t.total
    /\ s.histo = t.histo
    /\ s.max_prune = t.max_prune

\* the step is a call of op that returned
Called(op) == ops' = ops + 1 /\ last'.op = op /\ last'.status # "hang"

\* the keys used so far whose get() is positive
LiveKeys == {i \in 1..Len(known) : getitem(self, known[i]) # LLZero}

RECURSIVE IncrementEach(_, _, _)
\* the counter after increment() was called for each of source[1..n]
IncrementEach(s, source, n) ==
    IF n = 0 THEN s
    ELSE increment(IncrementEach(s, source, n - 1), source[n][2], source[n][3],
                   IF source[n][1] = "pair" THEN source[n][4] ELSE LLOne).self

(***************************************************************************)
(* Properties.                                                             *)
(***************************************************************************)

\* C1: as long as every call was an increment with delta >= 0 and no prune
\* ran, get(k) is the sum of the deltas given for k (0 for a key that was
\* never incremented) and total() is the sum of all the deltas.
C1_IncrementsAddUp ==
    (hist.incs /\ ~env.fresh /\ fault = "none" /\ HasEmpty(self)) =>
        /\ \A i \in 1..Len(known) : getitem(self, known[i]) = given[i]
        /\ \A d \in NewKeys : getitem(self, d) = LLZero
        /\ ~LLIsNeg(total(self))
        /\ total(self) \o <<0>> = WideSum(given, NumKeys)

\* C2: after prune(b) every occupied cell has count > b, every key whose
\* count was > b is found with the same count, every key whose count was
\* <= b has get = 0, and size is not larger than before.
C2_PrunePostconditions ==
    [][(Called("prune") /\ last'.status = "ok") =>
          /\ \A i \in Occupied(self') : LLLess(last'.args[1], self'.table[i].count)
          /\ \A i \in 1..Len(known) :
                getitem(self', known[i]) =
                    IF LLLess(last'.args[1], getitem(self, known[i]))
                    THEN getitem(self, known[i]) ELSE LLZero
          /\ self'.size <= self.size]_vars

\* a prune with a boundary > 0 returned; a key survived it and a key that
\* had a positive count did not
C2_Witness ==
    /\ last.op = "prune" /\ last.status = "ok"
    /\ LLLess(LLZero, last.args[1])
    /\ Occupied(self) # {}
    /\ \E i \in hist.counted : \A j \in Occupied(self) : self.table[j].key.id # i

\* C3: in every state total is the sum of the counts of the occupied cells
\* (so a prune takes the counts of the cells it discards off total).
C3_TotalIsSumOfCounts ==
    fault = "none" => self.total = SumCounts(self.table, self.buckets)

\* C4: right after an automatic prune, before the new key is installed,
\* size <= B/2, whatever the counts are (those of histogram bin 255 too).
C4_AutoPruneHalves ==
    \A i \in 1..Len(last.autos) : last.autos[i][2] <= self.buckets \div 2

\* C5: after every public operation size < B, so that a slot is empty, every
\* lookup ends and the search for prune's start stays inside the table.
C5_SizeBelowBuckets ==
    self.size < self.buckets /\ HasEmpty(self) /\ fault = "none"

\* C6: while max_prune = 0, cardinality() is size - histo[0], the number of
\* keys whose get() is positive; if no delete and no set-to-0 was applied
\* either, it is the number of keys that were ever given a positive count.
C6_CardinalityExact ==
    (self.max_prune = LLZero /\ fault = "none" /\ HasEmpty(self)) =>
        /\ cardinality(self) = self.size - self.histo[0]
        /\ cardinality(self) = Cardinality(LiveKeys)
        /\ ~hist.zeroed => cardinality(self) = Cardinality(hist.counted)

\* max_prune = 0, a cell of count 0 is in the table beside one with a count
C6_Witness ==
    /\ self.max_prune = LLZero /\ fault = "none"
    /\ self.histo[0] > 0
    /\ cardinality(self) >= 1

\* C7, as stated: once any prune ran (automatic or explicit, any boundary)
\* max_prune # 0 and cardinality() is the estimate of the sketch.
C7_AnyPruneSetsMaxPrune ==
    hist.pruned => /\ self.max_prune # LLZero
                   /\ cardinality(self) = HyperLogLog_cardinality(self.hll)

\* C7, amended: max_prune # 0 exactly when a prune with a boundary > 0 ran;
\* from then on cardinality() is the estimate of the sketch, and until then
\* (prunes with a boundary <= 0 included) it is size - histo[0].
C7_PositivePruneSetsMaxPrune ==
    /\ (self.max_prune # LLZero) <=> hist.pos
    /\ LLLeq(LLZero, self.max_prune)
    /\ hist.pos => cardinality(self) = HyperLogLog_cardinality(self.hll)
    /\ ~hist.pos => cardinality(self) = self.size - self.histo[0]

\* a prune with a boundary <= 0 returned on a counter that holds a key
C7_Witness ==
    /\ last.op = "prune" /\ last.status = "ok"
    /\ hist.pruned /\ ~hist.pos
    /\ self.size > 0

\* C8, as stated: B = 8 and 12 distinct keys counted once each: a prune ran,
\* size - histo[0] <= 4, total() <= 12, the keys in the table are among the
\* 12 and max_prune # 0.
C8_TwelveKeys ==
    (env.name = "twelve" /\ ops = 12) =>
        /\ hist.pruned
        /\ size(self) <= 4
        /\ LLLeq(total(self), LL(12))
        /\ \A i \in Occupied(self) : self.table[i].key.id \in 1..12
        /\ self.max_prune # LLZero

\* C8, amended: all 12 calls return; after them a prune ran, size - histo[0]
\* is 6 (the prune at the seventh key discards the first six keys, the last
\* six stay), total() <= 12, the keys in the table are among the 12 and
\* max_prune is 1, the boundary of that prune.
C8_TwelveKeysSix ==
    env.name = "twelve" =>
        /\ self.buckets = 8
        /\ fault = "none"
        /\ ops = 12 =>
              /\ hist.pruned
              /\ size(self) = 6
              /\ LLLeq(total(self), LL(12))
              /\ \A i \in Occupied(self) : self.table[i].key.id \in 1..12
              /\ self.max_prune # LLZero
              /\ self.max_prune = LLOne
              /\ cardinality(self) = HyperLogLog_cardinality(self.hll)

\* the twelfth of the 12 keys was counted
C8_Witness ==
    env.name = "twelve" /\ ops = 12 /\ Len(known) = 12 /\ last.status = "ok"

\* C9: an increment with delta < 0, a set with value < 0 and an increment
\* that would bring the count above 2^63-1 are rejected and leave counts,
\* occupied slots, size, total, histogram and max_prune as they were, with no
\* cell allocated and no prune run; an increment that brings the count to
\* 2^63-1 or less is accepted.
C9_RejectedLeavesState ==
    [][/\ (Called("increment") /\ last'.args[2] = strlen(KeyOf(last', known'))
             /\ LLIsNeg(last'.args[3]))
          => (last'.status = "ValueError" /\ SameCounter(self, self')
              /\ last'.autos = <<>>)
       /\ (Called("set") /\ last'.args[2] = strlen(KeyOf(last', known'))
             /\ LLIsNeg(last'.args[3]))
          => (last'.status = "ValueError" /\ SameCounter(self, self')
              /\ last'.autos = <<>>)
       /\ (Called("increment") /\ last'.args[2] = strlen(KeyOf(last', known'))
             /\ ~LLIsNeg(last'.args[3]))
          => IF Exceeds(getitem(self, KeyOf(last', known')), last'.args[3])
             THEN /\ last'.status = "OverflowError"
                  /\ SameCounter(self, self')
                  /\ last'.autos = <<>>
             ELSE /\ last'.status = "ok"
                  /\ getitem(self', KeyOf(last', known')) =
                        LLAdd(getitem(self, KeyOf(last', known')), last'.args[3])
      ]_vars

\* a key counted 2^62 was incremented by 2^62 again: overflow, get stays 2^62
C9_Witness ==
    /\ last.op = "increment" /\ last.status = "OverflowError"
    /\ last.args[3] = Pow62
    /\ getitem(self, KeyOf(last, known)) = Pow62

\* C10, as stated: an update() that fails leaves the counter as it was
\* before the call.
C10_FailedUpdateRestores ==
    [][(Called("update") /\ last'.status # "ok") => SameCounter(self, self')]_vars

\* C10, amended: an update() that fails on element n+1 of its source leaves
\* the counter as n separate increment calls, one for each of the elements
\* before it, leave it; n < the length of the source; with n = 0 the counter
\* is as it was.
C10_FailedUpdateKeepsPrefix ==
    [][(Called("update") /\ last'.status # "ok") =>
          /\ last'.args[2] < Len(last'.args[1])
          /\ SameCounter(IncrementEach(self, last'.args[1], last'.args[2]), self')
          /\ last'.args[2] = 0 => SameCounter(self, self')]_vars

\* an update() failed after its first element was counted
C10_Witness ==
    /\ last.op = "update" /\ last.status # "ok"
    /\ last.args[2] >= 1
    /\ self.total # LLZero

\* the effect of delete(k) on everything but total
DeleteFrame ==
    /\ last'.status = "ok"
    /\ getitem(self', KeyOf(last', known')) = LLZero
    /\ size(self') = size(self) -
          (IF getitem(self, KeyOf(last', known')) # LLZero THEN 1 ELSE 0)
    /\ self'.size = self.size
    /\ self'.max_prune = self.max_prune
    /\ \A i \in 0..(self.buckets - 1) :
          /\ self'.table[i].key = self.table[i].key
          /\ self.table[i].key # KeyOf(last', known')
                => self'.table[i].count = self.table[i].count
    /\ getitem(self, KeyOf(last', known')) = LLZero => SameCounter(self, self')

\* a delete call with a valid key returned
Deleted == Called("delete") /\ last'.args[2] = strlen(KeyOf(last', known'))

\* C11: delete(k) on a key with count c > 0 makes get(k) = 0, takes exactly c
\* off total, lowers size - histo[0] by 1 and leaves size, the occupied slots,
\* the slot of every key and the count of every other key as they were;
\* delete of a key that is not in the table (or has count 0) changes nothing.
C11_DeleteFrame ==
    [][Deleted =>
          /\ DeleteFrame
          /\ self'.total = LLSub(self.total, getitem(self, KeyOf(last', known')))
          /\ SubExact(self.total, getitem(self, KeyOf(last', known')))]_vars

\* What holds of C11: everything it says but for total, and total as a 64-bit
\* value: total' is total - c modulo 2^64.
C11_DeleteFrameMod64 ==
    [][Deleted =>
          /\ DeleteFrame
          /\ self'.total = LLSub(self.total, getitem(self, KeyOf(last', known')))]_vars

\* a set call with a valid key and a value >= 0 returned
WasSet ==
    /\ Called("set")
    /\ last'.args[2] = strlen(KeyOf(last', known'))
    /\ ~LLIsNeg(last'.args[3])

\* the effect of set(k, v) on everything but total
SetFrame ==
    /\ last'.status = "ok"
    /\ getitem(self', KeyOf(last', known')) = last'.args[3]
    /\ last'.autos = <<>> =>
          \A i \in 1..Len(known) :
             known[i] # KeyOf(last', known')
                => getitem(self', known[i]) = getitem(self, known[i])
    /\ (last'.args[3] = LLZero
          /\ \A i \in Occupied(self) : self.table[i].key # KeyOf(last', known'))
       => /\ SameCounter(self, self')
          /\ self'.hll = self.hll
          /\ self'.str_allocated = self.str_allocated

\* v minus the count of the key before the call
SetDelta == LLSub(last'.args[3], getitem(self, KeyOf(last', known')))

\* C12: set(k, v) with v >= 0 makes get(k) = v and changes total by exactly
\* v minus the former get(k); if no automatic prune ran, every other count is
\* as it was; set(k, 0) on an absent key allocates nothing, does not feed the
\* sketch and leaves size, histogram and total as they were.
C12_SetFrame ==
    [][WasSet =>
          /\ SetFrame
          /\ self'.total = LLAdd(self.total, SetDelta)
          /\ AddExact(self.total, SetDelta)]_vars

\* What holds of C12: everything it says but for total, and total as a 64-bit
\* value: total' is total + v - old modulo 2^64.
C12_SetFrameMod64 ==
    [][WasSet => (SetFrame /\ self'.total = LLAdd(self.total, SetDelta))]_vars

\* b is the largest power of two that is <= n
LargestPowerOfTwo(b, n) ==
    /\ \E k \in 0..62 : b = LLShl(LLOne, k)
    /\ LLLeq(b, n)
    /\ LLLess(n, LLAdd(b, b))

\* the construction did not raise a value error: buckets is the largest power
\* of two <= n and hash_mask is buckets - 1; the table, if the machine had
\* the memory for it, has buckets empty cells
Constructed ==
    /\ last.status # "ValueError"
    /\ LargestPowerOfTwo(last.args[2], last.args[1])
    /\ last.args[3] = LLSub(last.args[2], LLOne)
    /\ LLLeq(last.args[2], LL(MaxTable)) =>
          /\ last.status = "ok"
          /\ self.buckets = LLInt(last.args[2])
          /\ self.hash_mask = self.buckets - 1
          /\ DOMAIN self.table = 0..(self.buckets - 1)
          /\ Occupied(self) = {}

\* the construction raised a value error and made no table
NotConstructed ==
    /\ last.status = "ValueError"
    /\ fault = "ValueError"
    /\ self = Unbuilt
    /\ DOMAIN self.table = {}

\* C14, as stated: construction with n buckets succeeds for 4 <= n <= 2^32,
\* with buckets() the largest power of two <= n and hash_mask = buckets - 1,
\* and fails with a value error, making no table, for n < 4.
C14_Construction ==
    last.op = "init" =>
        /\ (LLLeq(LL(4), last.args[1]) /\ LLLeq(last.args[1], Pow32)) => Constructed
        /\ LLLess(last.args[1], LL(4)) => NotConstructed

\* C14, amended: the upper end of the range is 2^32 - 1; construction fails
\* with a value error, making no table, for n >= 2^32 as it does for n < 4.
C14_ConstructionBelowPow32 ==
    last.op = "init" =>
        IF LLLeq(LL(4), last.args[1]) /\ LLLess(last.args[1], Pow32)
        THEN Constructed
        ELSE NotConstructed

\* a counter of 2^32 buckets was asked for
C14_Witness ==
    last.op = "init" /\ last.args[1] = Pow32 /\ last.status = "ValueError"


\* t shows the callers what s shows them
SameObservable(s, t) ==
    /\ \A i \in 1..Len(known) : getitem(t, known[i]) = getitem(s, known[i])
    /\ total(t) = total(s)
    /\ size(t) = size(s)
    /\ t.size = s.size
    /\ t.max_prune = s.max_prune
    /\ t.histo = s.histo
    /\ cardinality(t) = cardinality(s)
    /\ t.buckets = s.buckets

\* t holds, slot by slot, the keys that the pickle of s lists in slot order
SameKeys(s, t) ==
    /\ Occupied(t) = Occupied(s)
    /\ \A i \in Occupied(s) : t.table[i].key = s.table[i].key
    /\ reduce_strings(t.table, t.buckets) = reduce(s).state.strings_row.keys

\* C13: unpickling the pickle of a counter gives a counter of the same bucket
\* count that shows the same get(k) for every key, the same total, size,
\* number of live keys, max_prune, histogram and cardinality, with every
\* occupied slot owning the same key; it is the same counter in every field,
\* so that every later call does to it what it would have done to the original.
C13_RestoreRoundTrip ==
    [][last'.op = "restore" =>
          /\ last'.status = "ok"
          /\ SameObservable(self, self')
          /\ SameKeys(self, self')
          /\ self' = self]_vars

\* a counter with a live key and a key of count 0 was pickled and unpickled
C13_Witness ==
    /\ last.op = "restore"
    /\ last.status = "ok"
    /\ self.size >= 2
    /\ self.histo[0] >= 1
    /\ self.total # LLZero


\* the slots whose count is > 0
LiveSlots(s) == {i \in 0..(s.buckets - 1) : s.table[i].count # LLZero}

\* yielded lists the slots of s whose count is > 0 in increasing slot order,
\* each once, by its key, and with Count(i) for its count when pairs
Yields(s, yielded, pairs, Count(_)) ==
    /\ Len(yielded) = Cardinality(LiveSlots(s))
    /\ Len(yielded) = s.size - s.histo[0]
    /\ \A j \in 1..Len(yielded) :
         \E i \in LiveSlots(s) :
            /\ Cardinality({l \in LiveSlots(s) : l < i}) = j - 1
            /\ yielded[j][1] = s.table[i].key
            /\ yielded[j][1] # NULL
            /\ Len(yielded[j]) = IF pairs THEN 2 ELSE 1
            /\ pairs => yielded[j][2] = Count(i)
    /\ \A i \in 1..Len(known) :
         Cardinality({j \in 1..Len(yielded) : yielded[j][1] = known[i]})
            = IF find_cell(s, known[i]) = NoCell THEN 0
              ELSE IF getitem(s, known[i]) = LLZero THEN 0 ELSE 1

CountOf(i) == self.table[i].count
CountAsLong32(i) == as_long(self.table[i].count, 32)

\* C15, as stated: a full iteration by keys or by items yields, in increasing
\* slot order, every key whose count is > 0 exactly once, with that count for
\* items, never a key of count 0 nor an empty slot, and size - histo[0]
\* entries in all.
C15_Iteration ==
    last.op = "iterate" =>
        Yields(self, last.value, last.args[1] = ITER_RESULT_KV_PAIRS, CountOf)

\* C15, what holds: the keys, their order and their number are as stated on
\* every build; the count of an item is the count of its key where long has
\* 64 bits, and the low 32 bits of it, read as a signed value, where long
\* has 32 bits.
C15_IterationAsLong ==
    last.op = "iterate" =>
        IF last.args[2] = 64
        THEN Yields(self, last.value, last.args[1] = ITER_RESULT_KV_PAIRS, CountOf)
        ELSE Yields(self, last.value, last.args[1] = ITER_RESULT_KV_PAIRS, CountAsLong32)

\* the items of a counter with a live key and a key of count 0 were listed
C15_Listed ==
    /\ last.op = "iterate"
    /\ last.args[1] = ITER_RESULT_KV_PAIRS
    /\ Len(last.value) >= 1
    /\ self.histo[0] >= 1


\* the slots from the ideal bucket of the key of slot i up to i, cyclically
Chain(s, i) ==
    {(bucket(s, s.table[i].key) + d) % s.buckets :
        d \in 0..((i - bucket(s, s.table[i].key)) % s.buckets)}

\* C16: for every occupied cell, no slot from the ideal bucket of its key up
\* to the cell, cyclically, is empty; this holds after any sequence of
\* increment, set, delete, update, automatic and explicit prune.
C16_ProbeChain ==
    \A i \in Occupied(self) : \A j \in Chain(self, i) : self.table[j].key # NULL

\* a prune emptied a slot and left a key away from its ideal bucket
C16_Witness ==
    /\ hist.pruned
    /\ \E i \in Occupied(self) : bucket(self, self.table[i].key) # i
    /\ self.size < self.buckets - 1
    /\ (last.op = "prune" \/ last.autos # <<>>)

RECURSIVE SumHisto(_, _, _)
\* histo[lo] + ... + histo[hi], by halves
SumHisto(histo, lo, hi) ==
    IF lo = hi THEN histo[lo]
    ELSE SumHisto(histo, lo, (lo + hi) \div 2) + SumHisto(histo, (lo + hi) \div 2 + 1, hi)

\* the bin of the count of slot i
BinOf(s, i) == histo_addr(s.table[i].count)

\* C17: between calls, size is the number of occupied cells and the sum of
\* the histogram, and every bin holds the number of occupied cells whose count
\* maps to it (bin 0: the keys of count 0): the bin of every occupied cell
\* holds the number of the cells of that bin, and every other bin holds 0.
C17_Histogram ==
    /\ self.size = Cardinality(Occupied(self))
    /\ self.size = SumHisto(self.histo, 0, 255)
    /\ \A i \in Occupied(self) :
         self.histo[BinOf(self, i)] =
             Cardinality({j \in Occupied(self) : BinOf(self, j) = BinOf(self, i)})
    /\ \A b \in 0..255 :
         self.histo[b] # 0 => \E i \in Occupied(self) : BinOf(self, i) = b

\* after a prune the table holds a key of count 0 and a key of another bin
C17_Witness ==
    /\ hist.pruned
    /\ self.histo[0] >= 1
    /\ \E b \in 1..255 : self.histo[b] >= 1


\* the bins of [0, 255) that hold a cell
NonEmptyBins(s) == {k \in 0..254 : s.histo[k] # 0}

RECURSIVE SumBins(_, _)
\* the sum of histo over bins
SumBins(histo, bins) ==
    IF bins = {} THEN 0
    ELSE SumBins(histo, bins \ {CHOOSE k \in bins : TRUE}) + histo[CHOOSE k \in bins : TRUE]

\* the bins k among bins with histo[0] + ... + histo[k] >= need.  For need > 0
\* the smallest bin of [0, 255) that reaches need holds a cell, so it is the
\* smallest bin of EnoughBins(histo, NonEmptyBins, need).
EnoughBins(histo, bins, need) ==
    {k \in bins : SumBins(histo, {j \in bins : j <= k}) >= need}

SmallestBin(enough) == CHOOSE k \in enough : \A l \in enough : k <= l

\* size - B/2, which is > 0 when an automatic prune runs (size >= 3/4 B)
Required(s) == s.size - (s.buckets \div 2)

\* the step is an increment or a set in which one automatic prune ran
AutoPruned ==
    /\ ops' = ops + 1
    /\ last'.op \in {"increment", "set"}
    /\ Len(last'.autos) = 1

\* t is s after a prune with boundary and the install of the key data: the
\* cells of s of count <= boundary are gone, those of greater count are kept
Evicts(s, t, boundary, data) ==
    \A i \in Occupied(s) :
        IF LLLess(boundary, s.table[i].count)
        THEN \E j \in Occupied(t) : t.table[j] = s.table[i]
        ELSE \A j \in Occupied(t) : t.table[j].key = s.table[i].key => s.table[i].key = data

\* boundary is (lower edge of the smallest bin of enough) - 1
LowerEdge(boundary, enough) ==
    /\ enough # {}
    /\ boundary = LLSub(bin_edge(SmallestBin(enough)), LLOne)

\* C18, as stated: the boundary of an automatic prune is (lower edge of bin
\* k) - 1 for the smallest bin k of [0, 255) with histo[0] + ... + histo[k]
\* >= size - B/2; cells of count <= boundary go, cells of greater count stay.
C18_BoundaryLowerEdge ==
    [][AutoPruned =>
          /\ Required(self) > 0
          /\ LowerEdge(last'.autos[1][1],
                       EnoughBins(self.histo, NonEmptyBins(self), Required(self)))
          /\ Evicts(self, self', last'.autos[1][1], KeyOf(last', known'))]_vars

\* boundary is the largest count of bin k: (lower edge of bin k + 1) - 1
UpperEdge(boundary, k) ==
    /\ boundary = LLSub(bin_edge(k + 1), LLOne)
    /\ histo_addr(boundary) = k
    /\ histo_addr(LLAdd(boundary, LLOne)) = k + 1

\* the smallest bin of enough, or bin 254 when there is none
BoundaryBin(enough) == IF enough = {} THEN 254 ELSE SmallestBin(enough)

\* C18, amended: the boundary of an automatic prune is (lower edge of bin
\* k + 1) - 1, the largest count of bin k, for the smallest bin k of [0, 255)
\* with histo[0] + ... + histo[k] >= size - B/2, and k = 254 when there is no
\* such bin; cells of count <= boundary go, cells of greater count stay.
C18_BoundaryUpperEdge ==
    [][AutoPruned =>
          /\ Required(self) > 0
          /\ UpperEdge(last'.autos[1][1],
                       BoundaryBin(EnoughBins(self.histo, NonEmptyBins(self),
                                              Required(self))))
          /\ Evicts(self, self', last'.autos[1][1], KeyOf(last', known'))]_vars

\* an automatic prune took the cells of bins 0 and 1 and left a cell of a
\* higher bin
C18_Witness ==
    /\ Len(last.autos) = 1
    /\ last.op = "increment"
    /\ last.autos[1][1] = LLOne
    /\ last.autos[1][2] >= 1


\* the call recorded in l named a key without a null byte inside
ValidKey(l, ks) == checkString(KeyOf(l, ks), l.args[2])

\* the call recorded in l is an increment or a set of a positive amount
Positive(l, ks) ==
    /\ l.op \in {"increment", "set"}
    /\ ValidKey(l, ks)
    /\ LLLess(LLZero, l.args[3])

\* the step is a call that returned
Returned == ops' = ops + 1 /\ last'.status \notin {"hang", "crash"}

\* C19: a call of increment with delta > 0 or of set with value > 0 feeds the
\* sketch the hash of its key exactly once, also when it runs an automatic
\* prune and looks the cell up again, and when it is rejected for overflow;
\* delete, set to 0, increment by 0, the calls rejected for a negative amount
\* or a bad key, prune, iteration and pickling do not feed it.
C19_FedOncePerPositive ==
    [][/\ (Returned /\ Positive(last', known')) =>
            /\ last'.feeds = 1
            /\ self'.hll.seen = self.hll.seen \cup {MurmurHash3_x86_32(KeyOf(last', known'))}
       /\ (Returned /\ last'.op \in {"increment", "set"} /\ ~Positive(last', known')) =>
            /\ last'.feeds = 0
            /\ self'.hll = self.hll
       /\ (Returned /\ last'.op \in {"delete", "prune"}) =>
            /\ last'.feeds = 0
            /\ self'.hll = self.hll
       /\ last'.op \in Observers =>
            /\ last'.feeds = 0
            /\ self'.hll = self.hll]_vars

\* C19, hence: for callers that use the calls above (no update), the hashes
\* the sketch was fed are the hashes of the keys passed to an increment or a
\* set with a positive amount.
C19_FedArePassed ==
    (fault = "none" /\ env.upds = {}) => self.hll.seen = hist.passed

\* an increment ran an automatic prune, looked the cell up again and fed the
\* sketch once
C19_Witness ==
    /\ last.op = "increment"
    /\ Len(last.autos) = 1
    /\ last.feeds = 1
    /\ Cardinality(self.hll.seen) >= 2


\* a prune ran in the step
PruneRan == last'.op = "prune" \/ last'.autos # <<>>

\* C20, as stated: max_prune never decreases, only a prune changes it, and in
\* every state it is the highest boundary that any prune so far, automatic or
\* explicit, was run with (0 before any prune).
C20_MaxPruneIsHighest ==
    [][/\ LLLeq(self.max_prune, self'.max_prune)
       /\ self'.max_prune # self.max_prune => PruneRan
       /\ fault' = "none" =>
             self'.max_prune = IF hist'.top = <<>> THEN LLZero ELSE hist'.top[1]]_vars

\* the larger of 0 and the highest boundary so far
TopOrZero(top) ==
    IF top = <<>> THEN LLZero
    ELSE IF LLLess(top[1], LLZero) THEN LLZero ELSE top[1]

\* C20, amended: max_prune never decreases, only a prune changes it, and in
\* every state it is the larger of 0 and the highest boundary that any prune
\* so far was run with: a prune with a negative boundary leaves it at 0.
C20_MaxPruneIsHighestOrZero ==
    [][/\ LLLeq(self.max_prune, self'.max_prune)
       /\ self'.max_prune # self.max_prune => PruneRan
       /\ fault = "none" => self.max_prune = TopOrZero(hist.top)
       /\ fault' = "none" => self'.max_prune = TopOrZero(hist'.top)]_vars

\* a prune with a boundary below max_prune returned and max_prune stayed
C20_Witness ==
    /\ last.op = "prune" /\ last.status = "ok"
    /\ LLLess(last.args[1], self.max_prune)
    /\ hist.top = <<self.max_prune>>


\* the low 64 bits of a five-limb value, as a long long
Low64(a) == <<a[1], a[2], a[3], a[4]>>

\* C21, as stated: total() is the sum of all the amounts that increment, set
\* and update added, less the amounts that delete and a lowering set took
\* away; a prune, explicit or automatic, leaves total as it is.
C21_TotalIsNet ==
    [][/\ fault' = "none" =>
             /\ ~LLIsNeg(total(self'))
             /\ Wide(total(self')) = hist'.net
       /\ (ops' = ops + 1 /\ last'.op = "prune") => total(self') = total(self)]_vars

\* C21, what holds: total() is that sum modulo 2^64, read as a signed value,
\* and a prune leaves it as it is.
C21_TotalIsNetMod64 ==
    [][/\ fault' = "none" => total(self') = Low64(hist'.net)
       /\ (ops' = ops + 1 /\ last'.op = "prune") => total(self') = total(self)]_vars

\* after an eviction total is above the sum of the counts that are left
C21_Evicted ==
    /\ hist.evicted # {}
    /\ fault = "none"
    /\ total(self) = Low64(hist.net)
    /\ total(self) # SumCounts(self.table, self.buckets)


\* every count of the table is in [0, 2^63 - 1]
CountsInRange(s) == \A i \in DOMAIN s.table : ~LLIsNeg(s.table[i].count)

\* C22, as stated: after any sequence of calls every count and total are in
\* [0, 2^63 - 1]: no accepted call makes a count or total negative, nor makes
\* it wrap (the amounts accepted so far add up to total, within 2^63 - 1).
C22_NoOverflow ==
    fault = "none" =>
        /\ CountsInRange(self)
        /\ ~LLIsNeg(total(self))
        /\ hist.net[5] = 0 /\ hist.net[4] < HalfLimb

\* C22, what holds: every count stays in [0, 2^63 - 1] (an increment that
\* would take a count past 2^63 - 1 is rejected with an overflow error).
C22_CountsInRange ==
    CountsInRange(self)

\* the counts of two keys, each in range, add up to more than 2^63 - 1
C22_Wrapped ==
    /\ fault = "none"
    /\ CountsInRange(self)
    /\ LLIsNeg(total(self))
    /\ Cardinality({i \in Occupied(self) : self.table[i].count # LLZero}) >= 2


\* C23: no key is stored in two occupied cells, after any sequence of
\* increment, set, delete, update, automatic and explicit prune, also after a
\* prune moved survivors and after an evicted key was inserted again.
C23_KeysUnique ==
    \A i \in Occupied(self) : \A j \in Occupied(self) :
        self.table[i].key = self.table[j].key => i = j

\* a key that a prune had evicted was counted again and is in the table, next
\* to a key that is away from its ideal bucket
C23_Witness ==
    /\ last.op = "increment" /\ last.status = "ok"
    /\ last.args[1] \in hist.evicted
    /\ last.args[1] \in KeyIds(self)
    /\ \E i \in Occupied(self) : bucket(self, self.table[i].key) # i


\* in s, whose callers gave the keys ks the sums of deltas sums: the count of
\* no key is above its sum, and the count of a key that no prune evicted is
\* its sum (the keys whose lookup does not return are left aside)
NeverOver(s, ks, sums, evicted) ==
    \A i \in 1..Len(ks) :
        find_cell(s, ks[i]) # NoCell =>
            /\ LLLeq(getitem(s, ks[i]), sums[i])
            /\ i \notin evicted => getitem(s, ks[i]) = sums[i]

\* every cell of t but that of the key of id is a cell of s, with its count
NoTransfer(s, t, id) ==
    \A j \in Occupied(t) :
        t.table[j].key.id # id =>
            \E i \in Occupied(s) :
                /\ s.table[i].key = t.table[j].key
                /\ s.table[i].count = t.table[j].count

\* C24: while the calls are increments and prunes only (automatic prunes
\* too), get(k) <= the sum of the deltas accepted for k, for every key k, with
\* equality for the keys that no prune ever evicted; and no call changes the
\* count of a key other than the one it names: a prune moves no count from
\* one key to another.
C24_NeverOverestimates ==
    [][(hist'.incp /\ fault' = "none") =>
          /\ NeverOver(self, known, hist.sums, hist.evicted)
          /\ NeverOver(self', known', hist'.sums, hist'.evicted)
          /\ NoTransfer(self, self', IF last'.op = "increment" THEN last'.args[1] ELSE 0)]_vars

\* increments and prunes only: a key that a prune evicted was counted again
\* and its count is below the sum of its deltas, beside a key that was never
\* evicted
C24_Witness ==
    /\ hist.incp /\ fault = "none" /\ HasEmpty(self)
    /\ \E i \in hist.evicted :
          /\ getitem(self, known[i]) # LLZero
          /\ LLLess(getitem(self, known[i]), hist.sums[i])
    /\ \E i \in 1..Len(known) :
          /\ i \notin hist.evicted
          /\ getitem(self, known[i]) # LLZero


RECURSIVE KeyBytes(_, _)
\* the sum of strlen(key) + 1 over the occupied cells among the slots 0..n-1
KeyBytes(table, n) ==
    IF n = 0 THEN 0
    ELSE KeyBytes(table, n - 1)
         + (IF table[n - 1].key # NULL THEN strlen(table[n - 1].key) + 1 ELSE 0)

\* the keys used so far that are in no cell
AbsentKeys == {i \in 1..Len(known) : known[i].id \notin KeyIds(self)}

\* C25: between calls str_allocated is the sum of strlen(key) + 1 over the
\* occupied cells, those of count 0 included, and every empty slot has count
\* 0; so the keys written in slot order fill the str_allocated bytes of the
\* pickle's buffer exactly, and a get of an absent key that returns gives 0.
C25_StrAllocated ==
    /\ self.str_allocated = KeyBytes(self.table, self.buckets)
    /\ \A i \in DOMAIN self.table : self.table[i].key = NULL => self.table[i].count = LLZero
    /\ reduce(self).status = "ok"
    /\ strings_length(reduce(self).state.strings_row.keys,
                      Len(reduce(self).state.strings_row.keys))
         = reduce(self).state.strings_row.length
    /\ \A i \in AbsentKeys :
          find_cell(self, known[i]) # NoCell => getitem(self, known[i]) = LLZero

\* a prune freed a key, and the table holds a key of count 0 beside another
C25_Witness ==
    /\ hist.evicted # {}
    /\ AbsentKeys # {}
    /\ self.histo[0] >= 1
    /\ self.size >= 2
    /\ self.str_allocated = KeyBytes(self.table, self.buckets)

=============================================================================
